---------------------------- MODULE Spec2Model ----------------------------
(***************************************************************************)
(* Model of sds1104xe-gui: utils.py (instrument queries, level matching,   *)
(* waveform decoding, auto-fit) and the handlers of gui.py that call it.   *)
(*                                                                         *)
(* Python values are tagged records, so that None, a float and a str can   *)
(* be told apart without comparing values of different shapes.             *)
(* A Python float is a decimal  m * 10^e  [type |-> "float", m, e], kept   *)
(* exactly: the model computes with exact decimals where Python rounds a   *)
(* binary double.  Times that are compared or subtracted are turned into   *)
(* whole numbers of ticks (10^-TickExp s); a tick count is wider than the  *)
(* model checker's integers, so it is held as base-Base limbs.             *)
(***************************************************************************)
EXTENDS Integers, Sequences, FiniteSets, TLC

\* ----------------------------------------------------------------- bounds
\* largest mantissa of a time handed to match_tdiv
MaxMant == 80
\* largest decimal exponent (seconds) of a time handed to match_tdiv
MaxExp == 2
\* a tick is 10^-TickExp seconds
TickExp == 12
\* limbs of a tick count
NLimbs == 6
\* most resources the bus lists
MaxResources == 2
\* longest raw waveform frame
MaxFrame == 30

\* ---------------------------------------------------------- Python values
None == [type |-> "NoneType"]
PyStr(s) == [type |-> "str", s |-> s]
PyFloat(m, e) == [type |-> "float", m |-> m, e |-> e]
IsNone(v) == v.type = "NoneType"
IsFloat(v) == v.type = "float"
PyInt(n) == [type |-> "int", n |-> n]
\* the handle of an opened instrument
Instr == [type |-> "Resource"]
\* the truth value of v in  if v:
Truthy(v) ==
  IF IsNone(v) THEN FALSE
  ELSE IF IsFloat(v) THEN v.m # 0
  ELSE IF v.type = "str" THEN v.s # ""
  ELSE TRUE
\* how a call ends: it returns val, or raises exc
Returned(v) == [kind |-> "return", val |-> v, exc |-> "none"]
Raised(exc) == [kind |-> "raise", val |-> None, exc |-> exc]

\* ------------------------------------------------------ wide naturals
Base == 10 * 1000
Limbs == 0 .. NLimbs - 1
RECURSIVE Pow10(_)
Pow10(k) == IF k = 0 THEN 1 ELSE 10 * Pow10(k - 1)

\* v * Base^q as limbs (least significant first), for 0 <= v < Base^2
BigAt(v, q) ==
  [p \in Limbs |-> IF p = q THEN v % Base ELSE IF p = q + 1 THEN v \div Base ELSE 0]
BigZero == [p \in Limbs |-> 0]
BigLt(a, b) ==
  \E p \in Limbs : a[p] < b[p] /\ \A q \in Limbs : q > p => a[q] = b[q]
BigLe(a, b) == a = b \/ BigLt(a, b)
RECURSIVE BigBorrow(_, _, _)
BigBorrow(a, b, p) ==
  IF p = 0 THEN 0
  ELSE IF a[p - 1] - b[p - 1] - BigBorrow(a, b, p - 1) < 0 THEN 1 ELSE 0
\* a - b, for a >= b
BigSub(a, b) ==
  [p \in Limbs |-> (a[p] - b[p] - BigBorrow(a, b, p) + Base) % Base]
BigAbsDiff(a, b) == IF BigLt(a, b) THEN BigSub(b, a) ELSE BigSub(a, b)
RECURSIVE BigRem(_, _, _)
BigRem(a, d, p) ==
  IF p = NLimbs - 1 THEN 0 ELSE (BigRem(a, d, p + 1) * Base + a[p + 1]) % d
\* floor(a / d), for 0 < d < 2^31 / Base
BigDivSmall(a, d) ==
  [p \in Limbs |-> (BigRem(a, d, p) * Base + a[p]) \div d]

\* the ticks of a non-negative float  m * 10^e  (m < Base, e >= -TickExp)
Ticks(x) ==
  LET k == x.e + TickExp
  IN  BigAt(x.m * Pow10(k % 4), k \div 4)

\* ------------------------------------------------------ decimal floats
Min(a, b) == IF a < b THEN a ELSE b
\* the float m * 10^e with the trailing zeros of m moved into e
RECURSIVE Norm(_, _)
Norm(m, e) ==
  IF m = 0 THEN PyFloat(0, 0)
  ELSE IF m % 10 = 0 THEN Norm(m \div 10, e + 1)
  ELSE PyFloat(m, e)
\* n * x, n an int
FMulInt(n, x) == Norm(n * x.m, x.e)
\* x / 25  =  4 * x / 100
FDiv25(x) == Norm(4 * x.m, x.e - 2)
\* a - b
FSub(a, b) ==
  LET e == Min(a.e, b.e)
  IN  Norm(a.m * Pow10(a.e - e) - b.m * Pow10(b.e - e), e)
\* a * b
FMul(a, b) == Norm(a.m * b.m, a.e + b.e)
\* the least j with 10^j a multiple of d (d > 0 with no prime factor but 2, 5)
RECURSIVE DecimalShift(_, _)
DecimalShift(d, j) == IF Pow10(j) % d = 0 THEN j ELSE DecimalShift(d, j + 1)
\* i / x, i an int, x a float > 0 whose mantissa divides a power of ten
IntDivF(i, x) ==
  LET j == DecimalShift(x.m, 0)
  IN  Norm(i * (Pow10(j) \div x.m), 0 - x.e - j)

\* -------------------------------------------------------------- the tables
VDIV_LEVELS ==
  << "500 uV", "1 mV", "2 mV", "5 mV", "10 mV", "20 mV", "50 mV", "100 mV",
     "200 mV", "500 mV", "1 V", "2 V", "5 V", "10 V" >>

\* the label table without its last entry
TDIV_LEVELS_33 ==
  << "1 ns", "2 ns", "5 ns", "10 ns", "20 ns", "50 ns", "100 ns", "200 ns",
     "500 ns", "1 us", "2 us", "5 us", "10 us", "20 us", "50 us", "100 us",
     "200 us", "500 us", "1 ms", "2 ms", "5 ms", "10 ms", "20 ms", "50 ms",
     "100 ms", "200 ms", "500 ms", "1 s", "2 s", "5 s", "10 s", "20 s",
     "50 s" >>

TDIV_LEVELS ==
  << "1 ns", "2 ns", "5 ns", "10 ns", "20 ns", "50 ns", "100 ns", "200 ns",
     "500 ns", "1 us", "2 us", "5 us", "10 us", "20 us", "50 us", "100 us",
     "200 us", "500 us", "1 ms", "2 ms", "5 ms", "10 ms", "20 ms", "50 ms",
     "100 ms", "200 ms", "500 ms", "1 s", "2 s", "5 s", "10 s", "20 s",
     "50 s", "100 s" >>

TDIV_FLOATS ==
  << PyFloat(1, -9), PyFloat(2, -9), PyFloat(5, -9), PyFloat(10, -9),
     PyFloat(20, -9), PyFloat(50, -9), PyFloat(100, -9), PyFloat(200, -9),
     PyFloat(500, -9), PyFloat(1, -6), PyFloat(2, -6), PyFloat(5, -6),
     PyFloat(10, -6), PyFloat(20, -6), PyFloat(50, -6), PyFloat(100, -6),
     PyFloat(200, -6), PyFloat(500, -6), PyFloat(1, -3), PyFloat(2, -3),
     PyFloat(5, -3), PyFloat(10, -3), PyFloat(20, -3), PyFloat(50, -3),
     PyFloat(100, -3), PyFloat(200, -3), PyFloat(500, -3), PyFloat(1, 0),
     PyFloat(2, 0), PyFloat(5, 0), PyFloat(10, 0), PyFloat(20, 0),
     PyFloat(50, 0), PyFloat(100, 0) >>

\* ------------------------------------------------------------- match_tdiv
\* match_step without the distance comparison: the lower entry is always taken
match_step_lower(t, i, ret_val) ==
  IF BigLt(Ticks(TDIV_FLOATS[i]), t) /\ BigLt(t, Ticks(TDIV_FLOATS[i + 1]))
  THEN PyStr(TDIV_LEVELS[i])
  ELSE ret_val

\* match_step with  lower <= upper  in place of  lower < upper
match_step_le(t, i, ret_val) ==
  IF BigLt(Ticks(TDIV_FLOATS[i]), t) /\ BigLt(t, Ticks(TDIV_FLOATS[i + 1]))
  THEN LET lower == BigAbsDiff(t, Ticks(TDIV_FLOATS[i]))
           upper == BigAbsDiff(t, Ticks(TDIV_FLOATS[i + 1]))
       IN  IF BigLe(lower, upper)
           THEN PyStr(TDIV_LEVELS[i])
           ELSE PyStr(TDIV_LEVELS[i + 1])
  ELSE ret_val

\* match_step with  t >= TDIV_FLOATS[i]  in place of  t > TDIV_FLOATS[i]
match_step_closed(t, i, ret_val) ==
  IF BigLe(Ticks(TDIV_FLOATS[i]), t) /\ BigLt(t, Ticks(TDIV_FLOATS[i + 1]))
  THEN LET lower == BigAbsDiff(t, Ticks(TDIV_FLOATS[i]))
           upper == BigAbsDiff(t, Ticks(TDIV_FLOATS[i + 1]))
       IN  IF BigLt(lower, upper)
           THEN PyStr(TDIV_LEVELS[i])
           ELSE PyStr(TDIV_LEVELS[i + 1])
  ELSE ret_val

\* One pass of the loop body for index i (1-based here, i-1 in the source):
\* ret_val is overwritten when t lies strictly between entries i and i+1.
match_step(t, i, ret_val) ==
  IF BigLt(Ticks(TDIV_FLOATS[i]), t) /\ BigLt(t, Ticks(TDIV_FLOATS[i + 1]))
  THEN LET lower == BigAbsDiff(t, Ticks(TDIV_FLOATS[i]))
           upper == BigAbsDiff(t, Ticks(TDIV_FLOATS[i + 1]))
       IN  IF BigLt(lower, upper)
           THEN PyStr(TDIV_LEVELS[i])
           ELSE PyStr(TDIV_LEVELS[i + 1])
  ELSE ret_val

RECURSIVE match_loop(_, _, _)
match_loop(t, i, ret_val) ==
  IF i > Len(TDIV_FLOATS) - 1 THEN ret_val
  ELSE match_loop(t, i + 1, match_step(t, i, ret_val))

\* match_tdiv(t), t in ticks
match_tdiv(t) == match_loop(t, 1, None)

\* ----------------------------------------------------------- calc_voltage

\* the signed value with two's complement in place of  num - 255
signed_value_256(num) == IF num > 127 THEN num - 256 ELSE num

\* lines 197-199: the signed value of a raw code
signed_value(num) == IF num > 127 THEN num - 255 ELSE num

\* calc_voltage(num, v_div, v_offset): v_div / 25 and the subtraction raise
\* TypeError on None
calc_voltage(num, v_div, v_offset) ==
  IF IsNone(v_div) \/ IsNone(v_offset) THEN Raised("TypeError")
  ELSE Returned(FSub(FMulInt(signed_value(num), FDiv25(v_div)), v_offset))

\* ----------------------------------------------------------------- strings
\* A str whose characters the code inspects (a reply of the instrument) is a
\* sequence of one-character strings.
Digits == { "0", "1", "2", "3", "4", "5", "6", "7", "8", "9" }
Letters ==
  { "A", "B", "C", "D", "E", "F", "G", "H", "I", "J", "K", "L", "M", "N",
    "O", "P", "Q", "R", "S", "T", "U", "V", "W", "X", "Y", "Z",
    "a", "b", "c", "d", "e", "f", "g", "h", "i", "j", "k", "l", "m", "n",
    "o", "p", "q", "r", "s", "t", "u", "v", "w", "x", "y", "z" }
Whitespace == { " ", "\t", "\n", "\r" }
PyText(cs) == [type |-> "str", cs |-> cs]

\* ------------------------------------------------------------- re.findall
\* A pattern of the readers is a prefix of atoms, the group (.*) and a
\* literal suffix.  An atom is a character or one of the classes \s \w \d.
Pattern(pre, suf) == [pre |-> pre, suf |-> suf]
AtomMatch(atom, ch) ==
  IF atom = "\\s" THEN ch \in Whitespace
  ELSE IF atom = "\\w" THEN ch \in Letters \cup Digits \cup { "_" }
  ELSE IF atom = "\\d" THEN ch \in Digits
  ELSE ch = atom
\* the prefix matches data from position p on
PrefixAt(pat, data, p) ==
  /\ p + Len(pat.pre) - 1 <= Len(data)
  /\ \A k \in 1 .. Len(pat.pre) : AtomMatch(pat.pre[k], data[p + k - 1])
\* the suffix stands at position q
SuffixAt(pat, data, q) ==
  /\ q + Len(pat.suf) - 1 <= Len(data)
  /\ \A k \in 1 .. Len(pat.suf) : data[q + k - 1] = pat.suf[k]
\* where the suffix may stand for a match starting at p: after a group that
\* holds no newline ('.' matches none)
GroupEnds(pat, data, p) ==
  { q \in p + Len(pat.pre) .. Len(data) + 1 :
      /\ SuffixAt(pat, data, q)
      /\ \A k \in p + Len(pat.pre) .. q - 1 : data[k] # "\n" }
MatchAt(pat, data, p) == PrefixAt(pat, data, p) /\ GroupEnds(pat, data, p) # {}
MatchStarts(pat, data) == { p \in 1 .. Len(data) : MatchAt(pat, data, p) }
SetMin(S) == CHOOSE x \in S : \A y \in S : x <= y
SetMax(S) == CHOOSE x \in S : \A y \in S : x >= y
\* re.findall(pat, data)[0]: the group of the leftmost match, the group as
\* long as it can be; raises IndexError when nothing matches
findall_first(pat, data) ==
  IF MatchStarts(pat, data) = {} THEN Raised("IndexError")
  ELSE LET p == SetMin(MatchStarts(pat, data))
           q == SetMax(GroupEnds(pat, data, p))
       IN  Returned(PyText(SubSeq(data, p + Len(pat.pre), q - 1)))

\* ------------------------------------------------------------------ float
RECURSIVE StripLeft(_)
StripLeft(cs) ==
  IF cs # << >> /\ Head(cs) \in Whitespace THEN StripLeft(Tail(cs)) ELSE cs
RECURSIVE StripRight(_)
StripRight(cs) ==
  IF cs # << >> /\ cs[Len(cs)] \in Whitespace
  THEN StripRight(SubSeq(cs, 1, Len(cs) - 1)) ELSE cs
AllDigits(cs) == \A k \in 1 .. Len(cs) : cs[k] \in Digits
DigitOf(ch) ==
  CASE ch = "0" -> 0 [] ch = "1" -> 1 [] ch = "2" -> 2 [] ch = "3" -> 3
    [] ch = "4" -> 4 [] ch = "5" -> 5 [] ch = "6" -> 6 [] ch = "7" -> 7
    [] ch = "8" -> 8 [] ch = "9" -> 9
RECURSIVE DigitsValue(_)
DigitsValue(cs) ==
  IF cs = << >> THEN 0
  ELSE 10 * DigitsValue(SubSeq(cs, 1, Len(cs) - 1)) + DigitOf(cs[Len(cs)])
Positions(cs, S) == { k \in 1 .. Len(cs) : cs[k] \in S }
HasSign(cs) == cs # << >> /\ Head(cs) \in { "+", "-" }
Unsigned(cs) == IF HasSign(cs) THEN Tail(cs) ELSE cs
SignOf(cs) == IF cs # << >> /\ Head(cs) = "-" THEN 0 - 1 ELSE 1
\* the digits before and after the point of  digits [ . digits ]
IntPart(cs) ==
  IF Positions(cs, { "." }) = {} THEN cs
  ELSE SubSeq(cs, 1, SetMin(Positions(cs, { "." })) - 1)
FracPart(cs) ==
  IF Positions(cs, { "." }) = {} THEN << >>
  ELSE SubSeq(cs, SetMin(Positions(cs, { "." })) + 1, Len(cs))
IsMantissa(cs) ==
  /\ AllDigits(IntPart(cs)) /\ AllDigits(FracPart(cs))
  /\ Len(IntPart(cs)) + Len(FracPart(cs)) >= 1
IsExponent(cs) == Unsigned(cs) # << >> /\ AllDigits(Unsigned(cs))
\* float(text) of a decimal literal  [sign] digits [. digits] [E [sign] digits];
\* anything else raises ValueError (inf, nan and digit underscores, which
\* Python also reads, are no reply of the model)
float(text) ==
  LET cs == StripRight(StripLeft(text.cs))
      body == Unsigned(cs)
      es == Positions(body, { "e", "E" })
      mant == IF es = {} THEN body ELSE SubSeq(body, 1, SetMin(es) - 1)
      expo == IF es = {} THEN << "0" >>
              ELSE SubSeq(body, SetMin(es) + 1, Len(body))
  IN  IF IsMantissa(mant) /\ IsExponent(expo)
      THEN Returned(Norm(SignOf(cs) * DigitsValue(IntPart(mant) \o FracPart(mant)),
                         SignOf(expo) * DigitsValue(Unsigned(expo))
                           - Len(FracPart(mant))))
      ELSE Raised("ValueError")

\* ---------------------------------------------------- replies of the scope
\* Each reply of the model: its text, and beside it what it is a reply to
\* (setting, channel, 0 for none) and the number it carries (None when the
\* field is not a number).
Reply(cs, setting, chan, value) ==
  [cs |-> cs, setting |-> setting, chan |-> chan, value |-> value]
\* CYMT 1000.5Hz
R_CYMT_1000_5 ==
  Reply(<< "C", "Y", "M", "T", " ", "1", "0", "0", "0", ".", "5", "H", "z" >>,
        "CYMT", 0, PyFloat(10005, -1))
\* CYMT 1.00E+03Hz
R_CYMT_1E3 ==
  Reply(<< "C", "Y", "M", "T", " ", "1", ".", "0", "0", "E", "+", "0", "3",
          "H", "z" >>,
        "CYMT", 0, PyFloat(1, 3))
\* CYMT 0.00E+00Hz
R_CYMT_0 ==
  Reply(<< "C", "Y", "M", "T", " ", "0", ".", "0", "0", "E", "+", "0", "0",
          "H", "z" >>,
        "CYMT", 0, PyFloat(0, 0))
\* CYMT 1.00E+10Hz
R_CYMT_1E10 ==
  Reply(<< "C", "Y", "M", "T", " ", "1", ".", "0", "0", "E", "+", "1", "0",
          "H", "z" >>,
        "CYMT", 0, PyFloat(1, 10))
\* CYMT <10Hz
R_CYMT_LOW ==
  Reply(<< "C", "Y", "M", "T", " ", "<", "1", "0", "H", "z" >>,
        "CYMT", 0, None)
\* ERR
R_ERR ==
  Reply(<< "E", "R", "R" >>,
        "", 0, None)
\* 
R_EMPTY ==
  Reply(<<  >>,
        "", 0, None)
\* TDIV 5.00E-04S
R_TDIV_500US ==
  Reply(<< "T", "D", "I", "V", " ", "5", ".", "0", "0", "E", "-", "0", "4",
          "S" >>,
        "TDIV", 0, PyFloat(5, -4))
\* TDIV 1.00E-03S\n
R_TDIV_1MS_NL ==
  Reply(<< "T", "D", "I", "V", " ", "1", ".", "0", "0", "E", "-", "0", "3",
          "S", "\n" >>,
        "TDIV", 0, PyFloat(1, -3))
\* C1:VDIV 1.00E+00V
R_C1_VDIV_1 ==
  Reply(<< "C", "1", ":", "V", "D", "I", "V", " ", "1", ".", "0", "0", "E",
          "+", "0", "0", "V" >>,
        "VDIV", 1, PyFloat(1, 0))
\* C2:VDIV 2.00E+00V
R_C2_VDIV_2 ==
  Reply(<< "C", "2", ":", "V", "D", "I", "V", " ", "2", ".", "0", "0", "E",
          "+", "0", "0", "V" >>,
        "VDIV", 2, PyFloat(2, 0))
\* C1:OFST -1.50E-01V
R_C1_OFST ==
  Reply(<< "C", "1", ":", "O", "F", "S", "T", " ", "-", "1", ".", "5", "0",
          "E", "-", "0", "1", "V" >>,
        "OFST", 1, PyFloat(-15, -2))
\* C3:OFST 2.5V
R_C3_OFST ==
  Reply(<< "C", "3", ":", "O", "F", "S", "T", " ", "2", ".", "5", "V" >>,
        "OFST", 3, PyFloat(25, -1))
\* SARA 1.00E+09Sa/s
R_SARA_1G ==
  Reply(<< "S", "A", "R", "A", " ", "1", ".", "0", "0", "E", "+", "0", "9",
          "S", "a", "/", "s" >>,
        "SARA", 0, PyFloat(1, 9))
\* SARA 0Sa/s
R_SARA_0 ==
  Reply(<< "S", "A", "R", "A", " ", "0", "S", "a", "/", "s" >>,
        "SARA", 0, PyFloat(0, 0))
\* C1:PAVA MAX,2.08E+00V
R_C1_MAX ==
  Reply(<< "C", "1", ":", "P", "A", "V", "A", " ", "M", "A", "X", ",", "2",
          ".", "0", "8", "E", "+", "0", "0", "V" >>,
        "PAVA", 1, PyFloat(208, -2))
\* C2:PAVA MAX,3.00E+00V
R_C2_MAX ==
  Reply(<< "C", "2", ":", "P", "A", "V", "A", " ", "M", "A", "X", ",", "3",
          ".", "0", "0", "E", "+", "0", "0", "V" >>,
        "PAVA", 2, PyFloat(3, 0))
\* C1:PAVA MAX,****V
R_C1_MAX_NONE ==
  Reply(<< "C", "1", ":", "P", "A", "V", "A", " ", "M", "A", "X", ",", "*",
          "*", "*", "*", "V" >>,
        "PAVA", 1, None)
Replies ==
  { R_CYMT_1000_5, R_CYMT_1E3, R_CYMT_1E10, R_CYMT_0, R_CYMT_LOW, R_ERR, R_EMPTY,
    R_TDIV_500US, R_TDIV_1MS_NL, R_C1_VDIV_1, R_C2_VDIV_2, R_C1_OFST,
    R_C3_OFST, R_SARA_1G, R_SARA_0, R_C1_MAX, R_C2_MAX, R_C1_MAX_NONE }

\* ------------------------------------------------------ instrument exchanges
\* What the session does to the bus, in order: one entry per call into pyvisa.
Exchange(op, text, arg) == [op |-> op, text |-> text, arg |-> arg]
\* instr.query(text)  and  instr.query(f"{text} {arg}")
Query(text) == Exchange("query", text, None)
QueryArg(text, arg) == Exchange("query", text, arg)

\* How instr.query(...) ends: with a reply, with the VisaIOError of a failed
\* or timed-out transfer, or with any other exception.
GotReply(r) == [kind |-> "reply", reply |-> r]
IOError == [kind |-> "VisaIOError", reply |-> R_EMPTY]
OtherError == [kind |-> "Exception", reply |-> R_EMPTY]
QueryOutcomes == { GotReply(r) : r \in Replies } \cup { IOError, OtherError }

\* What a function did: how it ended, its exchanges, the lines it printed.
Effect(r, io, out) == [ret |-> r, io |-> io, out |-> out]
\* a, and then b unless a raised
Then(a, b) ==
  IF a.ret.kind = "raise" THEN a
  ELSE Effect(b.ret, a.io \o b.io, a.out \o b.out)

\* smart_query that lets VisaIOError through
smart_query_uncaught(command, o) ==
  Effect(IF o.kind = "reply" THEN Returned(PyText(o.reply.cs)) ELSE Raised(o.kind),
         << command >>, << >>)

\* smart_query(instr, command) when instr.query ends as o
smart_query(command, o) ==
  Effect(IF o.kind = "reply" THEN Returned(PyText(o.reply.cs))
         ELSE IF o.kind = "VisaIOError" THEN Returned(None)
         ELSE Raised(o.kind),
         << command >>, << >>)

\* ---------------------------------------------------------------- readers
PAT_TDIV == Pattern(<< "T", "D", "I", "V", "\\s" >>, << "S" >>)
PAT_VDIV ==
  Pattern(<< "\\w", "\\d", ":", "V", "D", "I", "V", "\\s" >>, << "V" >>)
PAT_OFST ==
  Pattern(<< "\\w", "\\d", ":", "O", "F", "S", "T", "\\s" >>, << "V" >>)
PAT_SARA == Pattern(<< "S", "A", "R", "A", "\\s" >>, << "S", "a", "/", "s" >>)
PAT_CYMT == Pattern(<< "C", "Y", "M", "T", "\\s" >>, << "H", "z" >>)
PAT_MAX ==
  Pattern(<< "C", "1", ":", "P", "A", "V", "A", "\\s", "M", "A", "X", "," >>,
          << "V" >>)

\* try: return float(re.findall(pat, data)[0])  except: return None
\* (findall raises TypeError on None, [0] IndexError, float ValueError)
parse_reply(pat, data) ==
  IF IsNone(data) THEN None
  ELSE LET g == findall_first(pat, data.cs)
       IN  IF g.kind = "raise" THEN None
           ELSE IF float(g.val).kind = "raise" THEN None
           ELSE float(g.val).val

\* a reader: the query stands before the try, so what smart_query raises
\* goes to the caller
reader(text, pat, o) ==
  LET q == smart_query(Query(text), o)
  IN  IF q.ret.kind = "raise" THEN q
      ELSE Effect(Returned(parse_reply(pat, q.ret.val)), q.io, q.out)

get_tdiv(o) == reader("TDIV?", PAT_TDIV, o)
get_vdiv(o) == reader("C1:VDIV?", PAT_VDIV, o)
get_offset(o) == reader("C1:OFST?", PAT_OFST, o)
get_sara(o) == reader("SARA?", PAT_SARA, o)
get_freq(o) == reader("CYMT?", PAT_CYMT, o)
get_max(o) == reader("C1:PAVA? MAX", PAT_MAX, o)

\* ---------------------------------------------------------------- writers
\* a writer: whatever smart_query raises is caught and a line is printed
writer(text, level, line, o) ==
  LET q == smart_query(QueryArg(text, level), o)
  IN  Effect(Returned(None), q.io,
             IF q.ret.kind = "raise" THEN << line >> ELSE << >>)

set_vdiv(level, o) == writer("C1:VDIV", level, "Invalid VDIV level!", o)
set_tdiv(level, o) == writer("TDIV", level, "Invalid TDIV level!", o)

\* -------------------------------------------------------------- get_instr
\* What the bus does in a connection probe: whether visa.ResourceManager()
\* and rm.list_resources() raise, how many resources are listed, whether
\* rm.open_resource raises, and which of the two attribute reads of line 160
\* raises (0: none, 1: manufacturer_name, 2: model_name).
BusOutcomes ==
  [rm : { "ok", "raise" }, list : { "ok", "raise" }, n : 0 .. MaxResources,
   open : { "ok", "raise" }, ident : 0 .. 2]

NewRM == Exchange("ResourceManager", "", None)
ListResources == Exchange("list_resources", "", None)
OpenResource == Exchange("open_resource", "SIGLENT_SCOPE_ID", None)
ReadAttr(name) == Exchange("attribute", name, None)

\* get_instr with the try opened at the first line of the function
get_instr_all_caught(b) ==
  IF b.rm = "raise"
  THEN Effect(Returned(None), << NewRM >>, << "No instrument detected!" >>)
  ELSE IF b.list = "raise"
  THEN Effect(Returned(None), << NewRM, ListResources >>,
              << "No instrument detected!" >>)
  ELSE IF b.n = 0
  THEN Effect(Returned(None), << NewRM, ListResources >>, << >>)
  ELSE IF b.open = "raise"
  THEN Effect(Returned(None), << NewRM, ListResources, OpenResource >>,
              << "No instrument detected!" >>)
  ELSE IF b.ident = 1
  THEN Effect(Returned(None),
              << NewRM, ListResources, OpenResource,
                 ReadAttr("manufacturer_name") >>,
              << "No instrument detected!" >>)
  ELSE IF b.ident = 2
  THEN Effect(Returned(None),
              << NewRM, ListResources, OpenResource,
                 ReadAttr("manufacturer_name"), ReadAttr("model_name") >>,
              << "No instrument detected!" >>)
  ELSE Effect(Returned(Instr),
              << NewRM, ListResources, OpenResource,
                 ReadAttr("manufacturer_name"), ReadAttr("model_name") >>,
              << "Found instrument" >>)

\* get_instr(instr_id): lines 151 and 154 stand before the try
get_instr(b) ==
  IF b.rm = "raise" THEN Effect(Raised("OSError"), << NewRM >>, << >>)
  ELSE IF b.list = "raise"
  THEN Effect(Raised("VisaIOError"), << NewRM, ListResources >>, << >>)
  ELSE IF b.n = 0
  THEN Effect(Returned(None), << NewRM, ListResources >>, << >>)
  ELSE IF b.open = "raise"
  THEN Effect(Returned(None), << NewRM, ListResources, OpenResource >>,
              << "No instrument detected!" >>)
  ELSE IF b.ident = 1
  THEN Effect(Returned(None),
              << NewRM, ListResources, OpenResource,
                 ReadAttr("manufacturer_name") >>,
              << "No instrument detected!" >>)
  ELSE IF b.ident = 2
  THEN Effect(Returned(None),
              << NewRM, ListResources, OpenResource,
                 ReadAttr("manufacturer_name"), ReadAttr("model_name") >>,
              << "No instrument detected!" >>)
  ELSE Effect(Returned(Instr),
              << NewRM, ListResources, OpenResource,
                 ReadAttr("manufacturer_name"), ReadAttr("model_name") >>,
              << "Found instrument" >>)

\* --------------------------------------------------------------- fit_wave
\* 1 / freq in ticks, rounded down (freq > 0)
wavelength(freq) ==
  LET k == TickExp - freq.e
  IN  IF k < 0 THEN BigZero
      ELSE BigDivSmall(BigAt(Pow10(k % 4), k \div 4), freq.m)
\* wavelength / 7
per_div(freq) == BigDivSmall(wavelength(freq), 7)

\* lines 365-373, run when freq is truthy; o[4..7] end the four exchanges
fit_wave_body(freq, max_v, o) ==
  Then(set_tdiv(match_tdiv(per_div(freq)), o[4]),
  Then(set_vdiv(max_v, o[5]),
  Then(smart_query(QueryArg("C1:TRLV", max_v), o[6]),
       smart_query(Query("TRMD SINGLE"), o[7]))))

Pass == Effect(Returned(None), << >>, << >>)
\* the function returns None after what e did
ReturnsNone(e) ==
  IF e.ret.kind = "raise" THEN e ELSE Effect(Returned(None), e.io, e.out)

\* fit_wave with lines 371-373 outside the  if freq:  block
fit_wave_unguarded(o) ==
  LET f == get_freq(o[1])
      m == get_max(o[3])
  IN  ReturnsNone(
        Then(f,
        Then(set_vdiv(PyInt(1), o[2]),
        Then(m,
        Then(IF Truthy(f.ret.val)
             THEN Then(set_tdiv(match_tdiv(per_div(f.ret.val)), o[4]),
                       set_vdiv(m.ret.val, o[5]))
             ELSE Pass,
        Then(smart_query(QueryArg("C1:TRLV", m.ret.val), o[6]),
             smart_query(Query("TRMD SINGLE"), o[7])))))))

\* fit_wave with the second set_vdiv ahead of set_tdiv
fit_wave_swapped(o) ==
  LET f == get_freq(o[1])
      m == get_max(o[3])
  IN  ReturnsNone(
        Then(f,
        Then(set_vdiv(PyInt(1), o[2]),
        Then(m,
             IF Truthy(f.ret.val)
             THEN Then(set_vdiv(m.ret.val, o[5]),
                  Then(set_tdiv(match_tdiv(per_div(f.ret.val)), o[4]),
                  Then(smart_query(QueryArg("C1:TRLV", m.ret.val), o[6]),
                       smart_query(Query("TRMD SINGLE"), o[7]))))
             ELSE Pass))))

\* fit_wave(scope); o[1..7] end its seven exchanges
fit_wave(o) ==
  LET f == get_freq(o[1])
      m == get_max(o[3])
  IN  ReturnsNone(
        Then(f,
        Then(set_vdiv(PyInt(1), o[2]),
        Then(m,
             IF Truthy(f.ret.val)
             THEN fit_wave_body(f.ret.val, m.ret.val, o)
             ELSE Pass))))

\* ---------------------------------------------------------------- acquire
Max(a, b) == IF a > b THEN a ELSE b
\* a slice index as Python reads it: from the end when negative, clipped
SliceIndex(i, len) == IF i < 0 THEN Max(i + len, 0) ELSE Min(i, len)
\* s[start:stop], positions counted from 0
PySlice(s, start, stop) ==
  SubSeq(s, SliceIndex(start, Len(s)) + 1, SliceIndex(stop, Len(s)))
\* s[start:]
PySliceFrom(s, start) == PySlice(s, start, Len(s))

\* raw_data[:len(raw_data) - 3] with the count kept at 0 or more
chop_clamped(raw_data) == SubSeq(raw_data, 1, Max(Len(raw_data) - 3, 0))

\* line 403
chop(raw_data) == PySlice(raw_data, 0, Len(raw_data) - 3)
\* lines 400-403: the bytes that are decoded
payload(frame) == chop(PySliceFrom(frame, 22))

\* line 405: the list of voltages, or the first exception
processed_data(raw_data, v_div, offset) ==
  IF raw_data # << >> /\ calc_voltage(raw_data[1], v_div, offset).kind = "raise"
  THEN calc_voltage(raw_data[1], v_div, offset)
  ELSE Returned([i \in 1 .. Len(raw_data) |->
                   calc_voltage(raw_data[i], v_div, offset).val])
\* line 406: the time axis, or the first exception
time_axis(n, sara) ==
  IF n = 0 THEN Returned(<< >>)
  ELSE IF IsNone(sara) THEN Raised("TypeError")
  ELSE IF sara.m = 0 THEN Raised("ZeroDivisionError")
  ELSE Returned([i \in 1 .. n |-> IntDivF(i - 1, sara)])

\* the bytes of a frame of length len: position k (from 0) holds a code
\* that tells the positions apart
Frame(len, seed) == [k \in 1 .. len |-> (seed + 37 * (k - 1)) % 256]

Write(text) == Exchange("write", text, None)
ReadRaw == Exchange("read_raw", "", None)
ToCsv == Exchange("to_csv", "fpath", None)
NoFile == [written |-> FALSE, t |-> << >>, v |-> << >>]
File(t, v) == [written |-> TRUE, t |-> t, v |-> v]

\* What a run of acquire meets: the call into pyvisa or pandas that raises
\* (each of them ends the run, so at most one does), the three setting
\* replies and the frame.
AcquireOutcomes ==
  [fault : { "none", "ResourceManager", "open_resource", "write", "read_raw",
             "to_csv" },
   vdiv : { GotReply(R_C1_VDIV_1), GotReply(R_ERR), IOError, OtherError },
   offset : { GotReply(R_C1_OFST), IOError },
   sara : { GotReply(R_SARA_1G), GotReply(R_SARA_0), IOError },
   len : 0 .. MaxFrame, seed : { 3 }]

\* lines 405-410: decoding and saving, after the frame was read
acquire_decode(a, pd, t) ==
  IF pd.kind = "raise" THEN Effect(pd, << >>, << >>)
  ELSE IF t.kind = "raise" THEN Effect(t, << >>, << >>)
  ELSE Effect(IF a.fault = "to_csv" THEN Raised("OSError") ELSE Returned(None),
              << ToCsv >>, << >>)

\* lines 392-410 once the three settings were read and the frame is known
acquire_steps(a, vd, of, sa, pd, t) ==
  LET e == Then(vd, Then(of, Then(sa,
             Then(Effect(IF a.fault = "write" THEN Raised("VisaIOError")
                         ELSE Returned(None), << Write("C1:WF? DAT2") >>, << >>),
             Then(Effect(IF a.fault = "read_raw" THEN Raised("VisaIOError")
                         ELSE Returned(None), << ReadRaw >>, << >>),
                  acquire_decode(a, pd, t))))))
  IN  [eff |-> e,
       file |-> IF e.ret.kind = "return" THEN File(t.val, pd.val) ELSE NoFile]

\* lines 392-410, with the scope open: the effect and the file written
\* (each value of the function's locals is computed once)
acquire_scope(a) ==
  CHOOSE r \in
    { acquire_steps(a, vd, of, sa,
                    processed_data(raw_data, vd.ret.val, of.ret.val),
                    time_axis(Len(raw_data), sa.ret.val)) :
        vd \in { get_vdiv(a.vdiv) }, of \in { get_offset(a.offset) },
        sa \in { get_sara(a.sara) },
        raw_data \in { payload(Frame(a.len, a.seed)) } } : TRUE

\* acquire(fpath)
acquire(a) ==
  IF a.fault = "ResourceManager"
  THEN [eff |-> Effect(Raised("OSError"), << NewRM >>, << >>), file |-> NoFile]
  ELSE IF a.fault = "open_resource"
  THEN [eff |-> Effect(Returned(None), << NewRM, OpenResource >>,
                       << "No instrument detected!" >>),
        file |-> NoFile]
  ELSE CHOOSE r \in
         { [eff |-> Effect(s.eff.ret, << NewRM, OpenResource >> \o s.eff.io,
                           s.eff.out),
            file |-> s.file] : s \in { acquire_scope(a) } } : TRUE

\* -------------------------------------------------------------------- App
\* The fields of the App object that its handlers read and write.  A label
\* shows f"{v} {unit}", or v alone where unit is "".
Label(v, unit) == [v |-> v, unit |-> unit]
NoApp ==
  [scope |-> None, status |-> "", vdiv_curr_label |-> Label(None, ""),
   tdiv_curr_label |-> Label(None, ""), last_trace |-> None]
\* what a method did: its effect on the bus, the App after it, the file saved
Step(eff, a, file) == [eff |-> eff, app |-> a, file |-> file]
\* how the two reads of scope_conn end
ConnOutcomes ==
  { << v, t >> : v \in { GotReply(R_C1_VDIV_1), IOError, OtherError },
                 t \in { GotReply(R_TDIV_500US), IOError } }

\* scope_conn: the status first, then the two labels, each after its read
scope_conn(a, o) ==
  LET a1 == [a EXCEPT !.status = "Scope Connected!"]
      v == get_vdiv(o[1])
      a2 == [a1 EXCEPT !.vdiv_curr_label = Label(v.ret.val, "V")]
      t == get_tdiv(o[2])
      a3 == [a2 EXCEPT !.tdiv_curr_label = Label(t.ret.val, "s")]
  IN  IF v.ret.kind = "raise" THEN Step(v, a1, NoFile)
      ELSE IF t.ret.kind = "raise" THEN Step(Then(v, t), a2, NoFile)
      ELSE Step(Effect(Returned(None), v.io \o t.io, v.out \o t.out), a3,
                NoFile)

\* scope_disconn
scope_disconn(a) ==
  Step(Pass,
       [a EXCEPT !.status = "No Scope!",
                 !.vdiv_curr_label = Label(PyStr("-"), "V"),
                 !.tdiv_curr_label = Label(PyStr("-"), "s")],
       NoFile)

\* s, and then r, which starts from the App that s left, unless s raised
AndThen(s, r) ==
  IF s.eff.ret.kind = "raise" THEN s
  ELSE Step(Then(s.eff, r.eff), r.app, r.file)

\* self.scope = utils.get_instr(utils.SIGLENT_SCOPE_ID): nothing is
\* assigned when the probe raises
probe(a, b) ==
  LET p == get_instr(b)
  IN  IF p.ret.kind = "raise" THEN Step(p, a, NoFile)
      ELSE Step(Effect(Returned(None), p.io, p.out),
                [a EXCEPT !.scope = p.ret.val], NoFile)

\* App.__init__: the probe of line 20, last_trace, and the widgets built
\* from self.scope (acq_plot, then trace_settings)
App_init(b, o) ==
  LET connected(a) ==
        LET a1 == [a EXCEPT !.status = "Scope Connected!"]
            v == get_vdiv(o[1])
            t == get_tdiv(o[2])
        IN  IF v.ret.kind = "raise" THEN Step(v, a1, NoFile)
            ELSE IF t.ret.kind = "raise" THEN Step(Then(v, t), a1, NoFile)
            ELSE Step(Effect(Returned(None), v.io \o t.io, v.out \o t.out),
                      [a1 EXCEPT !.vdiv_curr_label = Label(v.ret.val, "V"),
                                 !.tdiv_curr_label = Label(t.ret.val, "s")],
                      NoFile)
      built(a) ==
        IF Truthy(a.scope) THEN connected(a) ELSE scope_disconn(a)
      p == probe(NoApp, b)
  IN  AndThen(p, built(p.app))

\* connect_scope
connect_scope(a, b, o) ==
  LET shown(a1) ==
        IF Truthy(a1.scope) THEN scope_conn(a1, o) ELSE scope_disconn(a1)
      p == probe(a, b)
  IN  AndThen(p, shown(p.app))

\* the name typed into fname_entry, as its stem and whether ".csv" follows
Fname(stem, ext) == [stem |-> stem, ext |-> ext]
\* lines 293-301: the name of the trace, in folder_loc
trace_name(file_check, fname) ==
  LET name == IF file_check = 1 THEN "20210207_172143.csv"
              ELSE IF fname.ext = ".csv" THEN fname.stem \o fname.ext
              ELSE fname.stem \o fname.ext \o ".csv"
  IN  PyStr("cwd/data" \o "/" \o name)

\* utils.acquire(self.last_trace) as a step of a handler
acquire_step(a, acq) ==
  LET r == acquire(acq) IN Step(r.eff, a, r.file)

\* acquire_data
acquire_data(a, b, o, file_check, fname, acq) ==
  LET named(a1) == [a1 EXCEPT !.last_trace = trace_name(file_check, fname)]
      shown(a1) == scope_conn(named(a1), o)
      saved_by(a1) == acquire_step(a1, acq)
      body(a1) ==
        IF Truthy(a1.scope)
        THEN AndThen(shown(a1), saved_by(shown(a1).app))
        ELSE scope_disconn(a1)
      p == probe(a, b)
  IN  AndThen(p, body(p.app))

\* lines 353-358: set what the drop-down menus hold and show it
set_shown(a, v_set, t_set, ov, ot) ==
  LET v == IF Truthy(v_set) THEN set_vdiv(v_set, ov) ELSE Pass
      a1 == IF Truthy(v_set)
            THEN [a EXCEPT !.vdiv_curr_label = Label(v_set, "")] ELSE a
      t == IF Truthy(t_set) THEN set_tdiv(t_set, ot) ELSE Pass
      a2 == IF Truthy(t_set)
            THEN [a1 EXCEPT !.tdiv_curr_label = Label(t_set, "")] ELSE a1
  IN  Step(Then(v, t), a2, NoFile)

\* update_scale
update_scale(a, b, o, v_set, t_set, ov, ot) ==
  LET set(a1) == set_shown(a1, v_set, t_set, ov, ot)
      body(a1) ==
        IF Truthy(a1.scope)
        THEN AndThen(scope_conn(a1, o), set(scope_conn(a1, o).app))
        ELSE scope_disconn(a1)
      p == probe(a, b)
  IN  AndThen(p, body(p.app))

\* f1_command
f1_command(a, b, o, fo) ==
  LET fitted(a1) == Step(fit_wave(fo), a1, NoFile)
      body(a1) ==
        IF Truthy(a1.scope)
        THEN AndThen(scope_conn(a1, o), fitted(scope_conn(a1, o).app))
        ELSE scope_disconn(a1)
      p == probe(a, b)
  IN  AndThen(p, body(p.app))

\* ------------------------------------------------------------------ state
VARIABLES
  pc,       \* "idle" between calls, "done" when the call below has ended
  call,     \* the function called last and what it was given and met
  ret,      \* how the call ended: its return value or its exception
  io,       \* the exchanges of the call with the bus, in order
  printed,  \* the lines the call printed
  saved,    \* the trace file the call wrote, if any
  app       \* the fields of the App object, NoApp while there is none

vars == << pc, call, ret, io, printed, saved, app >>

Init ==
  /\ pc = "idle"
  /\ call = [fn |-> "none"]
  /\ ret = Returned(None)
  /\ io = << >>
  /\ printed = << >>
  /\ saved = NoFile
  /\ app = NoApp

\* a call of a function that touches neither the bus nor the screen
Pure(c, r) ==
  /\ pc = "idle"
  /\ pc' = "done"
  /\ call' = c
  /\ ret' = r
  /\ io' = << >>
  /\ printed' = << >>
  /\ saved' = NoFile
  /\ app' = app

\* a call with the effect e
Does(c, e) ==
  /\ pc = "idle"
  /\ pc' = "done"
  /\ call' = c
  /\ ret' = e.ret
  /\ io' = e.io
  /\ printed' = e.out
  /\ saved' = NoFile
  /\ app' = app

\* the times handed to match_tdiv
TimeInputs ==
  { PyFloat(m, e) : m \in 0 .. MaxMant, e \in (0 - TickExp) .. MaxExp }

MatchTdiv ==
  pc = "idle" /\ \E t \in TimeInputs :
    Pure([fn |-> "match_tdiv", t |-> t], Returned(match_tdiv(Ticks(t))))

\* the volts/division and offsets handed to calc_voltage
VdivInputs == { PyFloat(1, 0), PyFloat(5, -1), PyFloat(2, -3), PyFloat(1, 1) }
OffsetInputs == { PyFloat(0, 0), PyFloat(15, -1), PyFloat(-2, -2) }

CalcVoltage ==
  pc = "idle" /\ \E num \in 0 .. 255, v_div \in VdivInputs \cup {None},
     v_offset \in OffsetInputs \cup {None} :
    Pure([fn |-> "calc_voltage", num |-> num, v_div |-> v_div,
          v_offset |-> v_offset],
         calc_voltage(num, v_div, v_offset))

GetInstr ==
  pc = "idle" /\ \E b \in BusOutcomes :
    \E e \in { get_instr(b) } : Does([fn |-> "get_instr", b |-> b], e)

GetTdiv ==
  pc = "idle" /\ \E o \in QueryOutcomes :
    \E e \in { get_tdiv(o) } : Does([fn |-> "get_tdiv", o |-> o], e)
GetVdiv ==
  pc = "idle" /\ \E o \in QueryOutcomes :
    \E e \in { get_vdiv(o) } : Does([fn |-> "get_vdiv", o |-> o], e)
GetOffset ==
  pc = "idle" /\ \E o \in QueryOutcomes :
    \E e \in { get_offset(o) } : Does([fn |-> "get_offset", o |-> o], e)
GetSara ==
  pc = "idle" /\ \E o \in QueryOutcomes :
    \E e \in { get_sara(o) } : Does([fn |-> "get_sara", o |-> o], e)
GetFreq ==
  pc = "idle" /\ \E o \in QueryOutcomes :
    \E e \in { get_freq(o) } : Does([fn |-> "get_freq", o |-> o], e)
GetMax ==
  pc = "idle" /\ \E o \in QueryOutcomes :
    \E e \in { get_max(o) } : Does([fn |-> "get_max", o |-> o], e)

\* how the query of a set command ends: the scope sends no reply to a set
\* command, so the read of the query times out unless something is pending
SetOutcomes == { GotReply(R_EMPTY), IOError, OtherError }
\* the levels the callers hand to the writers: a table entry, 1, a float, None
VdivLevels ==
  { PyStr(VDIV_LEVELS[i]) : i \in 1 .. Len(VDIV_LEVELS) }
    \cup { PyInt(1), PyFloat(208, -2), None }
TdivLevels == { PyStr(TDIV_LEVELS[i]) : i \in 1 .. Len(TDIV_LEVELS) } \cup { None }

SetVdiv ==
  pc = "idle" /\ \E level \in VdivLevels, o \in SetOutcomes :
    \E e \in { set_vdiv(level, o) } : Does([fn |-> "set_vdiv", level |-> level, o |-> o], e)
SetTdiv ==
  pc = "idle" /\ \E level \in TdivLevels, o \in SetOutcomes :
    \E e \in { set_tdiv(level, o) } : Does([fn |-> "set_tdiv", level |-> level, o |-> o], e)

\* how the seven exchanges of fit_wave end
FreqOutcomes ==
  { GotReply(R_CYMT_1000_5), GotReply(R_CYMT_1E3), GotReply(R_CYMT_1E10),
    GotReply(R_CYMT_0), GotReply(R_CYMT_LOW), IOError, OtherError }
MaxOutcomes ==
  { GotReply(R_C1_MAX), GotReply(R_C1_MAX_NONE), IOError, OtherError }
FitOutcomes ==
  { << o1, o2, o3, o4, o5, o6, o7 >> :
      o1 \in FreqOutcomes, o2 \in SetOutcomes, o3 \in MaxOutcomes,
      o4 \in SetOutcomes, o5 \in SetOutcomes, o6 \in SetOutcomes,
      o7 \in SetOutcomes }

FitWave ==
  pc = "idle" /\ \E o \in FitOutcomes :
    \E e \in { fit_wave(o) } : Does([fn |-> "fit_wave", o |-> o], e)

Acquire ==
  pc = "idle" /\ \E a \in AcquireOutcomes : \E r \in { acquire(a) } :
    /\ pc' = "done"
    /\ call' = [fn |-> "acquire", a |-> a]
    /\ ret' = r.eff.ret
    /\ io' = r.eff.io
    /\ printed' = r.eff.out
    /\ saved' = r.file
    /\ app' = app

\* the caller goes on to its next call
Continue ==
  /\ pc = "done"
  /\ pc' = "idle"
  /\ call' = [fn |-> "none"]
  /\ ret' = Returned(None)
  /\ io' = << >>
  /\ printed' = << >>
  /\ saved' = NoFile
  /\ app' = app

Next ==
  \/ MatchTdiv
  \/ CalcVoltage
  \/ GetInstr
  \/ GetTdiv
  \/ GetVdiv
  \/ GetOffset
  \/ GetSara
  \/ GetFreq
  \/ GetMax
  \/ SetVdiv
  \/ SetTdiv
  \/ FitWave
  \/ Acquire
  \/ Continue

Spec == Init /\ [][Next]_vars

\* ------------------------------------------------------- the running App
\* how a probe of the bus ends: each way get_instr can go
ProbeOk == [rm |-> "ok", list |-> "ok", n |-> 1, open |-> "ok", ident |-> 0]
ProbeOutcomes ==
  { ProbeOk, [ProbeOk EXCEPT !.rm = "raise"], [ProbeOk EXCEPT !.list = "raise"],
    [ProbeOk EXCEPT !.n = 0], [ProbeOk EXCEPT !.open = "raise"],
    [ProbeOk EXCEPT !.ident = 1] }
\* what the operator left in the widgets
FileChecks == { 0, 1 }
FnameEntries == { Fname("run", ""), Fname("run", ".csv") }
VdivChoices == { PyStr(""), PyStr(VDIV_LEVELS[11]) }
TdivChoices == { PyStr(""), PyStr(TDIV_LEVELS[19]) }
\* what the bus does in the rest of a handler
GuiSetOutcomes == { GotReply(R_EMPTY), OtherError }
GuiFitOutcomes ==
  { << o1, IOError, o3, IOError, IOError, IOError, IOError >> :
      o1 \in { GotReply(R_CYMT_1E3), GotReply(R_CYMT_0), IOError },
      o3 \in { GotReply(R_C1_MAX), OtherError } }
GuiAcquireOutcomes ==
  { a \in AcquireOutcomes :
      /\ a.fault \in { "none", "open_resource", "write" }
      /\ a.vdiv \in { GotReply(R_C1_VDIV_1), IOError }
      /\ a.offset = GotReply(R_C1_OFST)
      /\ a.sara = GotReply(R_SARA_1G)
      /\ a.len \in { 0, 27 } }

\* the App as its constructor leaves it, when the constructor returns
GuiInit ==
  /\ pc = "idle"
  /\ call = [fn |-> "none"]
  /\ ret = Returned(None)
  /\ io = << >>
  /\ printed = << >>
  /\ saved = NoFile
  /\ \E b \in ProbeOutcomes, o \in ConnOutcomes :
       \E s \in { App_init(b, o) } :
         s.eff.ret.kind = "return" /\ app = s.app

\* a handler called on the App, whole
Handles(c, s) ==
  /\ pc = "idle"
  /\ pc' = "done"
  /\ call' = c
  /\ ret' = s.eff.ret
  /\ io' = s.eff.io
  /\ printed' = s.eff.out
  /\ saved' = s.file
  /\ app' = s.app

ConnectScope ==
  pc = "idle" /\ \E b \in ProbeOutcomes, o \in ConnOutcomes :
    \E s \in { connect_scope(app, b, o) } :
      Handles([fn |-> "connect_scope", self |-> app, b |-> b, o |-> o], s)

AcquireData ==
  pc = "idle" /\ \E b \in ProbeOutcomes, o \in ConnOutcomes,
     file_check \in FileChecks, fname \in FnameEntries,
     acq \in GuiAcquireOutcomes :
    \E s \in { acquire_data(app, b, o, file_check, fname, acq) } :
      Handles([fn |-> "acquire_data", self |-> app, b |-> b, o |-> o,
               file_check |-> file_check, fname |-> fname, acq |-> acq], s)

UpdateScale ==
  pc = "idle" /\ \E b \in ProbeOutcomes, o \in ConnOutcomes,
     v_set \in VdivChoices, t_set \in TdivChoices,
     ov \in GuiSetOutcomes, ot \in GuiSetOutcomes :
    \E s \in { update_scale(app, b, o, v_set, t_set, ov, ot) } :
      Handles([fn |-> "update_scale", self |-> app, b |-> b, o |-> o,
               v_set |-> v_set, t_set |-> t_set, ov |-> ov, ot |-> ot], s)

F1Command ==
  pc = "idle" /\ \E b \in ProbeOutcomes, o \in ConnOutcomes,
     fo \in GuiFitOutcomes :
    \E s \in { f1_command(app, b, o, fo) } :
      Handles([fn |-> "f1_command", self |-> app, b |-> b, o |-> o,
               fo |-> fo], s)

\* mainloop hands the next event to its handler; an exception of a handler
\* is reported and the loop goes on
NextEvent ==
  /\ pc = "done"
  /\ pc' = "idle"
  /\ call' = [fn |-> "none"]
  /\ ret' = Returned(None)
  /\ io' = << >>
  /\ printed' = << >>
  /\ saved' = NoFile
  /\ app' = app

GuiNext ==
  \/ ConnectScope
  \/ AcquireData
  \/ UpdateScale
  \/ F1Command
  \/ NextEvent

GuiSpec == GuiInit /\ [][GuiNext]_vars

\* ===================================================== match_tdiv (C1-C3)
MatchDone == pc = "done" /\ call.fn = "match_tdiv"
Entries == 1 .. Len(TDIV_FLOATS)
Entry(j) == Ticks(TDIV_FLOATS[j])
\* t lies strictly between entries i and i+1
Between(t, i) == BigLt(Entry(i), Ticks(t)) /\ BigLt(Ticks(t), Entry(i + 1))
StrictlyInside(t) == \E i \in 1 .. Len(TDIV_FLOATS) - 1 : Between(t, i)
Dist(t, j) == BigAbsDiff(Ticks(t), Entry(j))
\* t is as far from entry i as from entry i+1
Tie(t, i) == Between(t, i) /\ Dist(t, i) = Dist(t, i + 1)

\* C1: for a time strictly between two adjacent entries of TDIV_FLOATS,
\* match_tdiv returns the label of an entry whose distance to the time is
\* minimal over the whole table; 3e-9 gives "2 ns".
C1_NearestEntry ==
  (MatchDone /\ StrictlyInside(call.t)) =>
    /\ ret.kind = "return"
    /\ ret.val.type = "str"
    /\ \E r \in Entries :
         /\ TDIV_LEVELS[r] = ret.val.s
         /\ \A j \in Entries : BigLe(Dist(call.t, r), Dist(call.t, j))
    /\ (call.t = PyFloat(3, -9) => ret.val = PyStr("2 ns"))

C1_Witness ==
  /\ MatchDone
  /\ call.t = PyFloat(3, -9)
  /\ StrictlyInside(call.t)
  /\ ret = Returned(PyStr("2 ns"))

\* C2 as claimed: on a tie between the two enclosing entries match_tdiv
\* returns the lower entry.
C2_TieLower ==
  \A i \in 1 .. Len(TDIV_FLOATS) - 1 :
    (MatchDone /\ Tie(call.t, i)) => ret = Returned(PyStr(TDIV_LEVELS[i]))

\* C2 amended: on a tie between the two enclosing entries match_tdiv returns
\* the upper entry (lower < upper is false on a tie, so the else branch runs).
C2_TieUpper ==
  \A i \in 1 .. Len(TDIV_FLOATS) - 1 :
    (MatchDone /\ Tie(call.t, i)) => ret = Returned(PyStr(TDIV_LEVELS[i + 1]))

C2_Witness ==
  /\ MatchDone
  /\ call.t = PyFloat(15, -1)
  /\ Tie(call.t, 28)
  /\ ret = Returned(PyStr("2 s"))

\* C3: match_tdiv returns None for every time below the first entry, above
\* the last entry, or equal to an entry; it never returns an endpoint there.
OutsideOrOnEntry(t) ==
  \/ BigLt(Ticks(t), Entry(1))
  \/ BigLt(Entry(Len(TDIV_FLOATS)), Ticks(t))
  \/ \E j \in Entries : Ticks(t) = Entry(j)

C3_NoMatch ==
  (MatchDone /\ OutsideOrOnEntry(call.t)) => ret = Returned(None)

C3_Witness ==
  /\ MatchDone
  /\ call.t = PyFloat(5, -6)
  /\ OutsideOrOnEntry(call.t)
  /\ ret = Returned(None)

\* ======================================================= calc_voltage (C4)
VoltDone == pc = "done" /\ call.fn = "calc_voltage"
\* a float of the voltage inputs in units of 10^-5 V, a whole number
Scaled(x) == x.m * Pow10(x.e + 5)

\* C4: for every raw code 0..255, volts/division and offset, calc_voltage
\* decodes the code as itself up to 127 and as code - 255 above, and returns
\* value * (v_div / 25) - offset; 200 at 1 V/div and offset 0 gives -2.2,
\* 255 gives 0 and 128 gives -127 steps.
C4_Decode ==
  (VoltDone /\ ~IsNone(call.v_div) /\ ~IsNone(call.v_offset)) =>
    LET value == IF call.num <= 127 THEN call.num ELSE call.num - 255
    IN  /\ ret.kind = "return"
        /\ IsFloat(ret.val)
        /\ 25 * Scaled(ret.val)
             = value * Scaled(call.v_div) - 25 * Scaled(call.v_offset)
        /\ (call.num = 200 /\ call.v_div = PyFloat(1, 0)
              /\ call.v_offset = PyFloat(0, 0)) => ret.val = PyFloat(-22, -1)
        /\ (call.num = 255 /\ call.v_offset = PyFloat(0, 0))
              => ret.val = PyFloat(0, 0)
        /\ (call.num = 128 /\ call.v_div = PyFloat(1, 0)
              /\ call.v_offset = PyFloat(0, 0)) => ret.val = PyFloat(-508, -2)

C4_Witness ==
  /\ VoltDone
  /\ call.num = 200
  /\ call.v_div = PyFloat(1, 0)
  /\ call.v_offset = PyFloat(0, 0)
  /\ ret = Returned(PyFloat(-22, -1))

\* ============================================================ acquire (C5)
AcquireDone == pc = "done" /\ call.fn = "acquire"
\* the run read a frame and saved a trace
TraceSaved == AcquireDone /\ ret.kind = "return" /\ saved.written
\* the value of a float of the trace in units of 10^-9, a whole number
Nano(x) == x.m * Pow10(x.e + 9)

\* C5: for a raw frame of any length L, acquire decodes exactly the bytes at
\* positions 22 .. L-4, in order: the trace has max(0, L-25) samples, as many
\* times as voltages, and time[i] = i / sample_rate.
C5_PayloadDecoded ==
  TraceSaved =>
    LET L == call.a.len
        n == IF L - 25 > 0 THEN L - 25 ELSE 0
        frame == Frame(L, call.a.seed)
    IN  /\ Len(saved.v) = n
        /\ Len(saved.t) = n
        /\ \A i \in 1 .. n :
             /\ saved.v[i]
                  = calc_voltage(frame[22 + i], call.a.vdiv.reply.value,
                                 call.a.offset.reply.value).val
             /\ Nano(saved.t[i]) * Nano(call.a.sara.reply.value)
                  = (i - 1) * Pow10(18)

\* ============================================================ readers (C6)
Readers ==
  { "get_tdiv", "get_vdiv", "get_offset", "get_sara", "get_freq", "get_max" }
ReaderDone == pc = "done" /\ call.fn \in Readers
\* the setting a reader asks for
SettingOf(fn) ==
  CASE fn = "get_tdiv" -> "TDIV" [] fn = "get_vdiv" -> "VDIV"
    [] fn = "get_offset" -> "OFST" [] fn = "get_sara" -> "SARA"
    [] fn = "get_freq" -> "CYMT" [] fn = "get_max" -> "PAVA"
\* the reply is the reader's setting, of channel 1 where the setting has a
\* channel, with a number in its field
ExpectedReply(fn, r) ==
  r.setting = SettingOf(fn) /\ r.chan \in { 0, 1 } /\ ~IsNone(r.value)
\* the same with any channel for get_vdiv and get_offset
AcceptedReply(fn, r) ==
  /\ r.setting = SettingOf(fn)
  /\ ~IsNone(r.value)
  /\ fn = "get_max" => r.chan = 1

\* C6 as claimed: a reader returns None, and does not raise, when the query
\* fails in transport or the reply is not the expected one, a reply for
\* another channel included; it returns the reply's number otherwise.
C6_NoValueUnlessExpected ==
  ReaderDone =>
    /\ call.o.kind = "VisaIOError" => ret = Returned(None)
    /\ (call.o.kind = "reply" /\ ~ExpectedReply(call.fn, call.o.reply))
          => ret = Returned(None)
    /\ (call.o.kind = "reply" /\ ExpectedReply(call.fn, call.o.reply))
          => ret = Returned(call.o.reply.value)

\* C6 amended: a reader returns None, and does not raise, when the query
\* raises VisaIOError or the reply does not match its pattern; get_max takes
\* channel 1 only, get_vdiv and get_offset take the reply of any channel; a
\* number is returned only for a matching reply, and it is the reply's number
\* (CYMT 1000.5Hz gives 1000.5, ERR gives None).
C6_NoValueUnlessAccepted ==
  ReaderDone =>
    /\ call.o.kind = "VisaIOError" => ret = Returned(None)
    /\ (call.o.kind = "reply" /\ ~AcceptedReply(call.fn, call.o.reply))
          => ret = Returned(None)
    /\ (call.o.kind = "reply" /\ AcceptedReply(call.fn, call.o.reply))
          => ret = Returned(call.o.reply.value)
    /\ (ret.kind = "return" /\ IsFloat(ret.val))
          => (call.o.kind = "reply" /\ AcceptedReply(call.fn, call.o.reply))
    /\ (call.fn = "get_freq" /\ call.o = GotReply(R_CYMT_1000_5))
          => ret = Returned(PyFloat(10005, -1))
    /\ call.o = GotReply(R_ERR) => ret = Returned(None)
    /\ Len(io) = 1

C6_Witness ==
  /\ ReaderDone
  /\ call.fn = "get_vdiv"
  /\ call.o = GotReply(R_C2_VDIV_2)
  /\ ret = Returned(PyFloat(2, 0))

\* ============================================================ writers (C7)
WriterDone == pc = "done" /\ call.fn \in { "set_vdiv", "set_tdiv" }
InvalidLevelLines == { "Invalid VDIV level!", "Invalid TDIV level!" }

\* C7: when the transport fails as set_vdiv or set_tdiv sends its command,
\* the writer reports an invalid level and does not raise; it sends the one
\* set command and reads nothing back.
C7_TransportFailureReported ==
  (WriterDone /\ call.o.kind = "VisaIOError") =>
    /\ ret.kind = "return"
    /\ \E k \in 1 .. Len(printed) : printed[k] \in InvalidLevelLines
    /\ Len(io) = 1

\* ========================================================== get_instr (C8)
ProbeDone == pc = "done" /\ call.fn = "get_instr"
Opens == { k \in 1 .. Len(io) : io[k].op = "open_resource" }

\* C8: get_instr ends by returning a handle or None whichever step fails,
\* and with no resource listed it returns None without opening.
C8_ProbeNeverRaises ==
  ProbeDone =>
    /\ ret.kind = "return"
    /\ ret.val \in { None, Instr }
    /\ (call.b.rm = "ok" /\ call.b.list = "ok" /\ call.b.n = 0)
          => (ret.val = None /\ Opens = {})

\* ======================================================= fit_wave (C9, C10)
FitDone == pc = "done" /\ call.fn = "fit_wave"
\* the number a reply carries for a setting of channel 1, or None
Carried(o, setting) ==
  IF o.kind = "reply" /\ o.reply.setting = setting /\ o.reply.chan \in { 0, 1 }
  THEN o.reply.value ELSE None
FreqOf(o) == Carried(o[1], "CYMT")
PeakOf(o) == Carried(o[3], "PAVA")
\* the exchanges of a whole run with the frequency f and the peak v
FullRun(f, v) ==
  << Query("CYMT?"), QueryArg("C1:VDIV", PyInt(1)), Query("C1:PAVA? MAX"),
     QueryArg("TDIV", match_tdiv(per_div(f))), QueryArg("C1:VDIV", v),
     QueryArg("C1:TRLV", v), Query("TRMD SINGLE") >>
IsPrefix(a, b) == Len(a) <= Len(b) /\ a = SubSeq(b, 1, Len(a))
\* every exchange got its reply or failed in transport
NoneRaised(o) == \A k \in 1 .. Len(o) : o[k].kind # "Exception"

TdivCommands == { k \in 1 .. Len(io) : io[k].text = "TDIV" }
\* fit_wave computed a target and the matcher gave None for it
NoMatchInFit ==
  /\ FitDone
  /\ Truthy(FreqOf(call.o))
  /\ call.o[3].kind # "Exception"
  /\ IsNone(match_tdiv(per_div(FreqOf(call.o))))

\* C11: when match_tdiv returns None for the target computed in fit_wave, no
\* time/division set command is sent to the instrument.
C11_NoMatchNoCommand == NoMatchInFit => TdivCommands = {}

\* ================================================ acquire, failures (C12)
\* the run met only failures of instrument exchanges: the handle not opened,
\* a setting read without a value, the waveform write or read failing
ExchangeFailuresOnly ==
  /\ AcquireDone
  /\ call.a.fault \in { "none", "open_resource", "write", "read_raw" }
  /\ call.a.vdiv.kind # "Exception"
\* one of them did fail
SomeExchangeFailed ==
  \/ call.a.fault # "none"
  \/ IsNone(Carried(call.a.vdiv, "VDIV"))
  \/ IsNone(Carried(call.a.offset, "OFST"))
  \/ IsNone(Carried(call.a.sara, "SARA"))

\* C12: no failure of an instrument exchange in an acquisition leaves
\* acquire as an exception.
C12_FailuresContained ==
  (ExchangeFailuresOnly /\ SomeExchangeFailed) => ret.kind = "return"

\* ============================================================ tables (C13)
\* The 1-2-5 ladder from 1 ns upwards: step k (from 0) is
\* StepDigits[k % 3] * 10^(k \div 3) nanoseconds, written with the unit of
\* its group of nine.
StepDigits == << 1, 2, 5 >>
StepLabels == << "1", "2", "5", "10", "20", "50", "100", "200", "500" >>
StepUnits == << "ns", "us", "ms", "s" >>
LadderLabel(k) == StepLabels[(k % 9) + 1] \o " " \o StepUnits[(k \div 9) + 1]
LadderTicks(k) ==
  LET q == (k \div 3) + TickExp - 9
  IN  BigAt(StepDigits[(k % 3) + 1] * Pow10(q % 4), q \div 4)
\* what C13 says of the tables, for a time/division table of n entries
TablesOfLength(n) ==
  /\ Len(VDIV_LEVELS) = 14
  /\ VDIV_LEVELS[1] = "500 uV"
  /\ VDIV_LEVELS[Len(VDIV_LEVELS)] = "10 V"
  /\ Len(TDIV_LEVELS) = n
  /\ TDIV_LEVELS[1] = "1 ns"
  /\ TDIV_LEVELS[Len(TDIV_LEVELS)] = "100 s"
  /\ Len(TDIV_FLOATS) = Len(TDIV_LEVELS)
  /\ \A i \in 1 .. Len(TDIV_FLOATS) :
       /\ TDIV_LEVELS[i] = LadderLabel(i - 1)
       /\ Ticks(TDIV_FLOATS[i]) = LadderTicks(i - 1)
  /\ \A i \in 1 .. Len(TDIV_FLOATS) - 1 :
       BigLt(Ticks(TDIV_FLOATS[i]), Ticks(TDIV_FLOATS[i + 1]))
\* a match_tdiv call returns a label of the table and nothing else
MatchReadsTable ==
  (MatchDone /\ ~IsNone(ret.val)) =>
    \E i \in 1 .. Len(TDIV_LEVELS) : ret.val = PyStr(TDIV_LEVELS[i])

\* C13 as claimed: 14 volts/division levels from 500 uV to 10 V, 33
\* time/division levels from 1 ns to 100 s, labels and floats of equal length
\* and paired entry by entry, floats strictly ascending, in every state.
C13_Tables33 == TablesOfLength(33) /\ MatchReadsTable

\* C13 amended: the same with 34 time/division levels.
C13_Tables34 == TablesOfLength(34) /\ MatchReadsTable

\* match_tdiv hands out the 34th label
C13_Witness ==
  /\ MatchDone
  /\ call.t = PyFloat(80, 0)
  /\ ret = Returned(PyStr(TDIV_LEVELS[34]))
  /\ TDIV_LEVELS[34] = "100 s"
  /\ TDIV_FLOATS[34] = PyFloat(100, 0)

\* ========================================================== handlers (C14)
Handlers == { "connect_scope", "acquire_data", "update_scale", "f1_command" }
HandlerDone == pc = "done" /\ call.fn \in Handlers
\* the probe the handler made on entry
LastProbe == get_instr(call.b)
\* the exchanges that ask the instrument something or set something
Commands == { k \in 1 .. Len(io) : io[k].op \in { "query", "write", "read_raw" } }

\* C14: after any sequence of connect_scope, acquire_data, update_scale and
\* f1_command, the handler just run began with the connection probe, the
\* status reads connected exactly when that probe returned a handle, and a
\* handler whose probe returned None sent no query or set command and left
\* last_trace as it was.
C14_HandlersReprobe ==
  HandlerDone =>
    /\ IsPrefix(LastProbe.io, io)
    /\ app.status = "Scope Connected!" <=> LastProbe.ret = Returned(Instr)
    /\ LastProbe.ret = Returned(None) =>
         (Commands = {} /\ app.last_trace = call.self.last_trace)

=============================================================================
